---- MODULE Spec2Model ----
(***************************************************************************)
(* Verification model of drawer-binify: the baseplate grid partitioner and *)
(* print-bed packer (backend/core/gridfinity_baseplate.py), the model      *)
(* reuse cache (backend/app/crud.py and the generation services) and the   *)
(* bin builder (unused/src/core/gridfinity_custom_bin.py).                 *)
(*                                                                         *)
(* All lengths are integers in tenths of a millimetre: 42.0 mm is 420,     *)
(* the 0.5 mm tolerance is 5, the 220 mm print bed is 2200.                *)
(***************************************************************************)
EXTENDS Integers, Sequences, FiniteSets, TLC

VARIABLES
    \* ---- GridfinityBaseplate: partition and packing ----
    config,                     \* self.config (GRID_SIZE, TOLERANCE, print bed)
    drawer_width,               \* self.drawer_width
    drawer_depth,               \* self.drawer_depth
    units,                      \* result of grid_divider()
    remaining_units,            \* printable_object_selector local
    current_y_units,            \* printable_object_selector local
    y_count,                    \* printable_object_selector local
    y_printable_object_offset,  \* printable_object_selector local
    x_printable_object_offset,  \* printable_object_selector local
    printable_objects,          \* printable_object_selector result
    selected_log,               \* history: printable_section_units of each object
    gpc,                        \* position in generate_baseplate's first two steps
    \* ---- model reuse cache: database and request sessions ----
    db,                         \* committed rows: models, files, bins, baseplates
    model_seq,                  \* models.id sequence (last value handed out)
    requests,                   \* number of requests started so far
    req,                        \* per session: the request being served
    spc,                        \* per session: position in the handler
    found,                      \* per session: existing_model (0 for None)
    pend,                       \* per session: flushed, uncommitted rows
    result,                     \* per session: outcome of its last request
    \* ---- module builds: create_bin and create_printable_object ----
    call,                       \* the build call being served (function, arguments)
    bpc,                        \* position in the build
    errors,                     \* validate_dimensions: the errors list
    outcome,                    \* how the call ended: returned or raised (message)
    doc,                        \* the document the call opened (0 for none)
    doc_seq,                    \* documents created so far (handle of the last)
    open_documents,             \* FreeCAD's registry of open documents
    objects,                    \* objects added to the call's document
    units_left,                 \* create_printable_object: units still to create
    dir_exists,                 \* output_dir exists on disk
    files,                      \* files on disk in output_dir
    at_call,                    \* history: disk and registry when the call began
    \* ---- model file generation in the services ----
    job,                        \* the model whose files are being generated
    jpc,                        \* position in the generation
    todo,                       \* files the copy loop has still to visit
    temp_dirs,                  \* temporary directories on disk under /tmp
    temp_files,                 \* files in the temporary directories
    permanent_files,            \* files copied under BASE_OUTPUT_DIR
    generated_files,            \* GeneratedFile records added to the session
    pending_exc,                \* exception in flight while `finally' runs
    job_outcome,                \* how the generation ended
    job_seq,                    \* model ids handed to generations so far
    \* ---- baseplate generations running in one FreeCAD process ----
    wpc,                        \* per worker: position in generate_baseplate
    wsections,                  \* per worker: number of printable objects
    windex,                     \* per worker: index of the current section
    wdoc,                       \* per worker: the document it opened (0 for none)
    wruns,                      \* per worker: generations started so far
    foreign_closed              \* history: <<closer, owner>> of documents closed
                                \* while their owner was still building in them

gridVars == <<config, drawer_width, drawer_depth, units, remaining_units,
              current_y_units, y_count, y_printable_object_offset,
              x_printable_object_offset, printable_objects, selected_log, gpc>>

cacheVars == <<db, model_seq, requests, req, spc, found, pend, result>>

buildVars == <<call, bpc, errors, outcome, doc, doc_seq, open_documents, objects,
               units_left, dir_exists, files, at_call>>

jobVars == <<job, jpc, todo, temp_dirs, temp_files, permanent_files,
             generated_files, pending_exc, job_outcome, job_seq>>

workerVars == <<wpc, wsections, windex, wdoc, wruns, foreign_closed>>

vars == <<gridVars, cacheVars, buildVars, jobVars, workerVars>>

----------------------------------------------------------------------------
(* Bounds of the model *)

\* largest number of whole grid squares in a drawer side
MaxSquares == 6

\* number of documents the builds of one run create
MaxDocuments == 2

\* largest number of units in a printable object handed to a build
MaxSectionUnits == 2

\* number of generation requests the model serves
MaxRequests == 3

\* number of model file generations the services run
MaxJobs == 2

\* number of baseplate generations each concurrent worker runs
MaxWorkerRuns == 2

\* largest number of sections generate_baseplate returns to the service
MaxJobSections == 2

\* parts of a grid square that a drawer side may have on top of whole squares
\* (tenths of mm): none, 0.5 mm, 1 mm, 1.1 mm, 8 mm, 22 mm, 40 mm
Remainders == {0, 5, 10, 11, 80, 220, 400}

----------------------------------------------------------------------------
(* GridfinityConfig *)

GRID_SIZE == 420
TOLERANCE == 5
PRINT_BED_WIDTH == 2200
PRINT_BED_DEPTH == 2200

\* GridfinityConfig() with its defaults
DefaultConfig ==
    [GRID_SIZE |-> GRID_SIZE, TOLERANCE |-> TOLERANCE,
     PRINT_BED_WIDTH |-> PRINT_BED_WIDTH, PRINT_BED_DEPTH |-> PRINT_BED_DEPTH]

\* from_env(): the print bed overridden by the environment (here 100 x 90 mm)
SmallBedConfig ==
    [DefaultConfig EXCEPT !.PRINT_BED_WIDTH = 1000, !.PRINT_BED_DEPTH = 900]

\* from_env(): a print bed smaller than one grid square (40 x 40 mm)
TinyBedConfig ==
    [DefaultConfig EXCEPT !.PRINT_BED_WIDTH = 400, !.PRINT_BED_DEPTH = 400]

Configs == {DefaultConfig, SmallBedConfig, TinyBedConfig}

\* drawer sides the model draws: at least one whole grid square, plus a
\* remainder
DrawerSides ==
    {k * GRID_SIZE + r : k \in 1..MaxSquares, r \in Remainders}

----------------------------------------------------------------------------
(* Python arithmetic *)

\* math.ceil(a / b) for b > 0
Ceil(a, b) == -((-a) \div b)

\* int(a / b) for a >= 0, b > 0
IntDiv(a, b) == a \div b

Min(S) == CHOOSE m \in S : \A n \in S : m <= n
Max(S) == CHOOSE m \in S : \A n \in S : m >= n

\* `u in s' for a list s
InSeq(u, s) == \E i \in 1..Len(s) : s[i] = u

----------------------------------------------------------------------------
(* class Unit, GridfinityBaseplate.__init__ and grid_divider *)

Unit(width, depth, x_offset, y_offset, is_standard) ==
    [width |-> width, depth |-> depth, x_offset |-> x_offset,
     y_offset |-> y_offset, is_standard |-> is_standard]

\* num_squares_x / num_squares_y of __init__
num_squares(extent, cfg) == Ceil(extent - 2 * cfg.TOLERANCE, cfg.GRID_SIZE)

\* the unit grid_divider appends at grid position (x, y)
grid_unit(x, y, W, D, cfg) ==
    LET G == cfg.GRID_SIZE
        standard_squares_x == IntDiv(W, G)
        standard_squares_y == IntDiv(D, G)
        remaining_width == W - standard_squares_x * G
        remaining_depth == D - standard_squares_y * G
        has_non_standard_depth == remaining_depth > 0 /\ remaining_depth < G
        x_pos == x * G
        y_pos == IF has_non_standard_depth
                 THEN (IF y = 0 THEN 0 ELSE remaining_depth + (y - 1) * G)
                 ELSE y * G
        depth == IF has_non_standard_depth
                 THEN (IF y = 0
                       THEN (IF remaining_depth > 0 THEN remaining_depth ELSE G)
                       ELSE G)
                 ELSE (IF y < standard_squares_y THEN G
                       ELSE (IF remaining_depth > 0 THEN remaining_depth ELSE G))
        width == IF x < standard_squares_x THEN G
                 ELSE (IF remaining_width > 0 THEN remaining_width ELSE G)
    IN  Unit(width, depth, x_pos, y_pos, width = G /\ depth = G)

\* grid_divider(): the units in the order of the two nested loops
grid_divider(W, D, cfg) ==
    LET nx == num_squares(W, cfg)
        ny == num_squares(D, cfg)
    IN  IF nx <= 0 \/ ny <= 0 THEN << >>
        ELSE [i \in 1..(nx * ny) |->
                 grid_unit((i - 1) % nx, (i - 1) \div nx, W, D, cfg)]

----------------------------------------------------------------------------
(* printable_object_selector *)

\* the print-bed test counting the squares before the current one only
FitsOnBedOffByOne(n, cfg_grid, bed) == (n - 1) * cfg_grid <= bed

\* the print-bed test of both scans: n grid squares fit on a bed side
\* (the code breaks when (y + 1) * GRID_SIZE > PRINT_BED_DEPTH)
FitsOnBed(n, cfg_grid, bed) == n * cfg_grid <= bed

\* [u for u in remaining if u.y_offset == y_off]
UnitsAtY(remaining, y_off) == SelectSeq(remaining, LAMBDA u : u.y_offset = y_off)

\* [u for u in current if u.x_offset == x_off]
UnitsAtX(current, x_off) == SelectSeq(current, LAMBDA u : u.x_offset = x_off)

\* the `for y in range(self.num_squares_y)' scan from row y on:
\* <<current_y_units, y_count>>
RECURSIVE ScanRows(_, _, _, _, _, _)
ScanRows(y, ny, remaining, y_off, cfg, acc) ==
    IF y >= ny THEN acc
    ELSE LET y_row == UnitsAtY(remaining, y_off + y * cfg.GRID_SIZE)
         IN  IF y_row = << >> \/ ~FitsOnBed(y + 1, cfg.GRID_SIZE, cfg.PRINT_BED_DEPTH)
             THEN acc
             ELSE ScanRows(y + 1, ny, remaining, y_off, cfg,
                           <<acc[1] \o y_row, acc[2] + 1>>)

\* next((u for u in current if u.x_offset == x_pos and u.y_offset == y_pos), None)
\* as a list of zero or one unit
FirstUnitAt(current, x_pos, y_pos) ==
    LET hits == SelectSeq(current,
                    LAMBDA u : u.x_offset = x_pos /\ u.y_offset = y_pos)
    IN  IF hits = << >> THEN << >> ELSE <<hits[1]>>

\* x_col of column x: the `for y in range(y_count)' loop
RECURSIVE ColumnUnits(_, _, _, _, _, _)
ColumnUnits(y, ycount, current, x_pos, y_off, cfg) ==
    IF y >= ycount THEN << >>
    ELSE FirstUnitAt(current, x_pos, y_off + y * cfg.GRID_SIZE)
         \o ColumnUnits(y + 1, ycount, current, x_pos, y_off, cfg)

\* the `for x in range(self.num_squares_x)' scan from column x on:
\* <<printable_section_units, x_count>>
RECURSIVE ScanColumns(_, _, _, _, _, _, _, _)
ScanColumns(x, nx, ycount, current, x_off, y_off, cfg, acc) ==
    IF x >= nx THEN acc
    ELSE LET x_col == ColumnUnits(0, ycount, current,
                                  x_off + x * cfg.GRID_SIZE, y_off, cfg)
         IN  IF x_col = << >> \/ ~FitsOnBed(x + 1, cfg.GRID_SIZE, cfg.PRINT_BED_WIDTH)
             THEN acc
             ELSE ScanColumns(x + 1, nx, ycount, current, x_off, y_off, cfg,
                              <<acc[1] \o x_col, acc[2] + 1>>)

\* adjusted_units: the section's units moved by (-base_x, -base_y)
\* units handed on with the offsets they have in the drawer
AdjustedUnitsNotRebased(section) == section

AdjustedUnits(section) ==
    LET base_x == Min({section[i].x_offset : i \in 1..Len(section)})
        base_y == Min({section[i].y_offset : i \in 1..Len(section)})
    IN  [i \in 1..Len(section) |->
            Unit(section[i].width, section[i].depth,
                 section[i].x_offset - base_x, section[i].y_offset - base_y,
                 section[i].is_standard)]

\* class PrintableObject
PrintableObject(obj_units, index) == [units |-> obj_units, index |-> index]

\* the list after `if unit in s: s.remove(unit)' for every unit of section
RemoveUnits(s, section) == SelectSeq(s, LAMBDA u : ~InSeq(u, section))

----------------------------------------------------------------------------
(* generate_baseplate: grid_divider() then printable_object_selector() *)

InitGrid ==
    /\ config \in Configs
    /\ drawer_width \in DrawerSides
    /\ drawer_depth \in DrawerSides
    /\ units = << >>
    /\ remaining_units = << >>
    /\ current_y_units = << >>
    /\ y_count = 0
    /\ y_printable_object_offset = 0
    /\ x_printable_object_offset = 0
    /\ printable_objects = << >>
    /\ selected_log = << >>
    /\ gpc = "divide"

\* units = self.grid_divider(); the selector's first lines up to the while
GridDivide ==
    /\ gpc = "divide"
    /\ units' = grid_divider(drawer_width, drawer_depth, config)
    /\ remaining_units' = units'
    /\ printable_objects' = << >>
    /\ selected_log' = << >>
    /\ y_printable_object_offset' = 0
    /\ gpc' = "outer"
    /\ UNCHANGED <<config, drawer_width, drawer_depth, current_y_units, y_count,
                   x_printable_object_offset>>
    /\ UNCHANGED <<cacheVars, buildVars, jobVars, workerVars>>

\* head of `while remaining_units' through `x_printable_object_offset = 0'
SelectRows ==
    /\ gpc = "outer"
    /\ IF remaining_units = << >>
          \/ UnitsAtY(remaining_units, y_printable_object_offset) = << >>
       THEN /\ gpc' = "returned"
            /\ UNCHANGED <<current_y_units, y_count, x_printable_object_offset>>
       ELSE LET scan == ScanRows(0, num_squares(drawer_depth, config),
                                 remaining_units, y_printable_object_offset,
                                 config, << << >>, 0 >>)
            IN  /\ current_y_units' = scan[1]
                /\ y_count' = scan[2]
                /\ x_printable_object_offset' = 0
                /\ gpc' = "inner"
    /\ UNCHANGED <<config, drawer_width, drawer_depth, units, remaining_units,
                   y_printable_object_offset, printable_objects, selected_log>>
    /\ UNCHANGED <<cacheVars, buildVars, jobVars, workerVars>>

\* one pass of `while current_y_units', or leaving it and
\* `y_printable_object_offset += y_count * GRID_SIZE'
SelectSection ==
    /\ gpc = "inner"
    /\ LET scan == ScanColumns(0, num_squares(drawer_width, config), y_count,
                               current_y_units, x_printable_object_offset,
                               y_printable_object_offset, config, << << >>, 0 >>)
           printable_section_units == scan[1]
           x_count == scan[2]
       IN  IF current_y_units = << >>
              \/ UnitsAtX(current_y_units, x_printable_object_offset) = << >>
              \/ printable_section_units = << >>
           THEN /\ y_printable_object_offset' =
                       y_printable_object_offset + y_count * config.GRID_SIZE
                /\ gpc' = "outer"
                /\ UNCHANGED <<remaining_units, current_y_units,
                               x_printable_object_offset, printable_objects,
                               selected_log>>
           ELSE /\ printable_objects' =
                       Append(printable_objects,
                              PrintableObject(AdjustedUnits(printable_section_units),
                                              Len(printable_objects)))
                /\ selected_log' = Append(selected_log, printable_section_units)
                /\ remaining_units' = RemoveUnits(remaining_units, printable_section_units)
                /\ current_y_units' = RemoveUnits(current_y_units, printable_section_units)
                /\ x_printable_object_offset' =
                       x_printable_object_offset + x_count * config.GRID_SIZE
                /\ UNCHANGED <<y_printable_object_offset, gpc>>
    /\ UNCHANGED <<config, drawer_width, drawer_depth, units, y_count>>
    /\ UNCHANGED <<cacheVars, buildVars, jobVars, workerVars>>

IdleGrid ==
    /\ config = DefaultConfig
    /\ drawer_width = GRID_SIZE
    /\ drawer_depth = GRID_SIZE
    /\ units = << >>
    /\ remaining_units = << >>
    /\ current_y_units = << >>
    /\ y_count = 0
    /\ y_printable_object_offset = 0
    /\ x_printable_object_offset = 0
    /\ printable_objects = << >>
    /\ selected_log = << >>
    /\ gpc = "idle"

NextGrid == GridDivide \/ SelectRows \/ SelectSection

----------------------------------------------------------------------------
(* printable_object_selector as a function: the sections of a whole run *)

\* the inner `while current_y_units' loop: the sections of one row band
RECURSIVE PackBand(_, _, _, _, _, _)
PackBand(current, x_off, y_off, ycount, nx, cfg) ==
    LET scan == ScanColumns(0, nx, ycount, current, x_off, y_off, cfg, << << >>, 0 >>)
    IN  IF current = << >> \/ UnitsAtX(current, x_off) = << >> \/ scan[1] = << >>
        THEN << >>
        ELSE <<scan[1]>> \o PackBand(RemoveUnits(current, scan[1]),
                                     x_off + scan[2] * cfg.GRID_SIZE,
                                     y_off, ycount, nx, cfg)

RECURSIVE Flatten(_)
Flatten(ss) == IF ss = << >> THEN << >> ELSE Head(ss) \o Flatten(Tail(ss))

\* the outer `while remaining_units' loop from offset y_off on
RECURSIVE PackAll(_, _, _, _, _)
PackAll(remaining, y_off, nx, ny, cfg) ==
    IF remaining = << >> \/ UnitsAtY(remaining, y_off) = << >> THEN << >>
    ELSE LET rows == ScanRows(0, ny, remaining, y_off, cfg, << << >>, 0 >>)
             band == PackBand(rows[1], 0, y_off, rows[2], nx, cfg)
         IN  band \o PackAll(RemoveUnits(remaining, Flatten(band)),
                             y_off + rows[2] * cfg.GRID_SIZE, nx, ny, cfg)

\* number of sections GridfinityBaseplate(W, D).generate_baseplate() creates
section_count(W, D) ==
    Len(PackAll(grid_divider(W, D, DefaultConfig), 0,
                num_squares(W, DefaultConfig), num_squares(D, DefaultConfig),
                DefaultConfig))

----------------------------------------------------------------------------
(* Model reuse cache: crud.get_model_by_metadata and the generation services *)

\* two request sessions, each opened by get_db() in its own worker
Sessions == {1, 2}

\* model_metadata of a bin and of a baseplate
BinMetadata(width, depth, height) ==
    [width |-> width, depth |-> depth, height |-> height]
BaseplateMetadata(width, depth) == [width |-> width, depth |-> depth]

\* requests the model issues: 42x42x25 and its neighbours in one dimension
BinRequests ==
    {BinMetadata(420, 420, 250), BinMetadata(840, 420, 250),
     BinMetadata(420, 840, 250), BinMetadata(420, 420, 300)}
BaseplateRequests ==
    {BaseplateMetadata(420, 420), BaseplateMetadata(840, 420),
     BaseplateMetadata(420, 840)}

\* generate_drawer_models requests: a 42 x 42 mm and a 1 x 42 mm drawer, each
\* with one group of bins
DrawerRequests ==
    [op : {"generate_drawer_models"}, type : {"baseplate"},
     metadata : {BaseplateMetadata(420, 420), BaseplateMetadata(10, 420)},
     bins : {BinMetadata(420, 420, 250), BinMetadata(420, 420, 300)}]

Requests ==
    [op : {"generate_bin", "get_or_create_bin_model"}, type : {"bin"},
     metadata : BinRequests]
    \cup [op : {"generate_baseplate"}, type : {"baseplate"},
          metadata : BaseplateRequests]

NoRequest == [op |-> "none"]
NoRows == [models |-> {}, files |-> {}, bins |-> {}, baseplates |-> {}, drawers |-> {}]
NoResult == [status |-> "none"]

\* class Model, GeneratedFile, Bin, Baseplate
ModelRow(id, type, metadata) == [id |-> id, type |-> type, model_metadata |-> metadata]
FileRow(model_id, file_type, section) ==
    [model_id |-> model_id, file_type |-> file_type, section |-> section]
BinRow(id, model_id, metadata) == [id |-> id, model_id |-> model_id, dims |-> metadata]
BaseplateRow(id, model_id, metadata) == [id |-> id, model_id |-> model_id, dims |-> metadata]
DrawerRow(id, metadata) == [id |-> id, dims |-> metadata]

\* metadata.get(key) == value
MetadataHas(metadata, key, value) ==
    key \in DOMAIN metadata /\ metadata[key] = value

\* a lookup that leaves the height out of the comparison
MatchKeysNoHeight(model_type) == {"width", "depth"}

\* the keys get_model_by_metadata compares for a model type
MatchKeys(model_type) ==
    IF model_type = "bin" THEN {"width", "depth", "height"} ELSE {"width", "depth"}

\* matching_models of get_model_by_metadata over the rows the session sees
matching_models(rows, model_type, metadata) ==
    {m \in rows :
        /\ m.type = model_type
        /\ \A k \in MatchKeys(model_type) :
              MetadataHas(m.model_metadata, k, metadata[k])}

\* rows a session's query returns: committed rows and its own flushed rows
VisibleModels(s) == db.models \cup pend[s].models
VisibleFiles(s) == db.files \cup pend[s].files

\* the files one build stores for a model
BuiltFiles(model_id, r) ==
    IF r.type = "bin"
    THEN {FileRow(model_id, "FCStd", 0), FileRow(model_id, "STL", 0)}
    ELSE {FileRow(model_id, t, k) :
             t \in {"FCStd", "stl"},
             k \in 0..(section_count(r.metadata.width, r.metadata.depth) - 1)}

InitCache ==
    /\ db = NoRows
    /\ model_seq = 0
    /\ requests = 0
    /\ req = [s \in Sessions |-> NoRequest]
    /\ spc = [s \in Sessions |-> "idle"]
    /\ found = [s \in Sessions |-> 0]
    /\ pend = [s \in Sessions |-> NoRows]
    /\ result = [s \in Sessions |-> NoResult]

\* a request arrives: get_db() opens a session for it
StartRequest(s) ==
    /\ spc[s] = "idle"
    /\ requests < MaxRequests
    /\ requests' = requests + 1
    /\ \E r \in Requests :
          req' = [req EXCEPT ![s] = [op |-> r.op, type |-> r.type,
                                     metadata |-> r.metadata, no |-> requests']]
    /\ spc' = [spc EXCEPT ![s] = "lookup"]
    /\ pend' = [pend EXCEPT ![s] = NoRows]
    /\ found' = [found EXCEPT ![s] = 0]
    /\ result' = [result EXCEPT ![s] = NoResult]
    /\ UNCHANGED <<db, model_seq>>
    /\ UNCHANGED <<gridVars, buildVars, jobVars, workerVars>>

\* existing_model = crud.get_model_by_metadata(...): matching_models[0] or None
Lookup(s) ==
    /\ spc[s] = "lookup"
    /\ LET hits == matching_models(VisibleModels(s), req[s].type, req[s].metadata)
       IN  IF hits = {}
           THEN /\ found' = [found EXCEPT ![s] = 0]
                /\ spc' = [spc EXCEPT ![s] = "insert"]
           ELSE /\ \E m \in hits : found' = [found EXCEPT ![s] = m.id]
                /\ spc' = [spc EXCEPT ![s] = "reuse"]
    /\ UNCHANGED <<db, model_seq, requests, req, pend, result>>
    /\ UNCHANGED <<gridVars, buildVars, jobVars, workerVars>>

\* the record the caller links to the model: Bin (generate_bin, _generate_bins)
\* or Baseplate (generate_baseplate)
LinkRows(s, model_id) ==
    IF req[s].type = "bin"
    THEN [pend[s] EXCEPT !.bins = @ \cup {BinRow(req[s].no, model_id, req[s].metadata)}]
    ELSE [pend[s] EXCEPT !.baseplates =
              @ \cup {BaseplateRow(req[s].no, model_id, req[s].metadata)}]

\* the rows of the database after the session commits rows
Committed(rows) ==
    [models |-> db.models \cup rows.models,
     files |-> db.files \cup rows.files,
     bins |-> db.bins \cup rows.bins,
     baseplates |-> db.baseplates \cup rows.baseplates,
     drawers |-> db.drawers \cup rows.drawers]

\* a rollback that lets the flushed Model row through
RollbackKeepsModel(s) == Committed([NoRows EXCEPT !.models = pend[s].models])

\* self.db.rollback(): none of the session's flushed rows is persisted
Rollback(s) == db

\* where the handler goes after generate_baseplate has committed: the
\* endpoints return, generate_drawer_models goes on to _generate_bins
AfterCommit(s) ==
    IF req[s].op = "generate_drawer_models" THEN "bins" ELSE "idle"

\* what the caller has once the model's record is committed
CommitResult(s) ==
    IF req[s].op = "generate_drawer_models" THEN result[s]
    ELSE [status |-> "ok", model_id |-> found[s],
          files |-> {f \in VisibleFiles(s) : f.model_id = found[s]}]

\* an existing model was found: link a record to it and commit, or fail and
\* roll back
Reuse(s) ==
    /\ spc[s] = "reuse"
    /\ \E ok \in BOOLEAN :
          IF ok
          THEN /\ db' = Committed(LinkRows(s, found[s]))
               /\ result' = [result EXCEPT ![s] = CommitResult(s)]
               /\ spc' = [spc EXCEPT ![s] = AfterCommit(s)]
          ELSE /\ db' = db
               /\ result' = [result EXCEPT ![s] = [status |-> "error"]]
               /\ spc' = [spc EXCEPT ![s] = "idle"]
    /\ pend' = [pend EXCEPT ![s] = NoRows]
    /\ UNCHANGED <<model_seq, requests, req, found>>
    /\ UNCHANGED <<gridVars, buildVars, jobVars, workerVars>>

\* no model found: new_model = Model(...); db.add(new_model); db.flush(),
\* and in generate_bin the Bin record with it
InsertModel(s) ==
    /\ spc[s] = "insert"
    /\ model_seq' = model_seq + 1
    /\ LET new_model == ModelRow(model_seq', req[s].type, req[s].metadata)
           with_model == [pend[s] EXCEPT !.models = @ \cup {new_model}]
       IN  pend' = [pend EXCEPT ![s] =
                       IF req[s].op = "generate_bin"
                       THEN [with_model EXCEPT !.bins =
                                @ \cup {BinRow(req[s].no, model_seq', req[s].metadata)}]
                       ELSE with_model]
    /\ found' = [found EXCEPT ![s] = model_seq']
    /\ spc' = [spc EXCEPT ![s] = "build"]
    /\ UNCHANGED <<db, requests, req, result>>
    /\ UNCHANGED <<gridVars, buildVars, jobVars, workerVars>>

\* _generate_model_files / generate_baseplate sections and file records:
\* the files are added to the session, or the build raises and the handler
\* rolls back
BuildFiles(s) ==
    /\ spc[s] = "build"
    /\ \E ok \in BOOLEAN :
          IF ok
          THEN /\ pend' = [pend EXCEPT ![s] =
                              [@ EXCEPT !.files = @ \cup BuiltFiles(found[s], req[s])]]
               /\ spc' = [spc EXCEPT ![s] = "commit"]
               /\ UNCHANGED result
          ELSE /\ pend' = [pend EXCEPT ![s] = NoRows]
               /\ spc' = [spc EXCEPT ![s] = "idle"]
               /\ result' = [result EXCEPT ![s] = [status |-> "error"]]
    /\ UNCHANGED <<db, model_seq, requests, req, found>>
    /\ UNCHANGED <<gridVars, buildVars, jobVars, workerVars>>

\* the caller's record for a new model (generate_bin added its Bin already)
\* and self.db.commit(), or a failing commit and the rollback
CommitNew(s) ==
    /\ spc[s] = "commit"
    /\ \E ok \in BOOLEAN :
          IF ok
          THEN /\ db' = Committed(IF req[s].op = "generate_bin" THEN pend[s]
                                  ELSE LinkRows(s, found[s]))
               /\ result' = [result EXCEPT ![s] = CommitResult(s)]
               /\ spc' = [spc EXCEPT ![s] = AfterCommit(s)]
          ELSE /\ db' = Rollback(s)
               /\ result' = [result EXCEPT ![s] = [status |-> "error"]]
               /\ spc' = [spc EXCEPT ![s] = "idle"]
    /\ pend' = [pend EXCEPT ![s] = NoRows]
    /\ UNCHANGED <<model_seq, requests, req, found>>
    /\ UNCHANGED <<gridVars, buildVars, jobVars, workerVars>>

----------------------------------------------------------------------------
(* generate_drawer_models: the drawer, its baseplate and its bins in one     *)
(* request                                                                   *)

\* POST /drawers/generate-models/ arrives: get_db() opens a session
StartDrawerRequest(s) ==
    /\ spc[s] = "idle"
    /\ requests < MaxRequests
    /\ requests' = requests + 1
    /\ \E r \in DrawerRequests :
          req' = [req EXCEPT ![s] = [op |-> r.op, type |-> r.type,
                                     metadata |-> r.metadata, no |-> requests',
                                     bins |-> r.bins, models_before |-> model_seq]]
    /\ spc' = [spc EXCEPT ![s] = "drawer"]
    /\ pend' = [pend EXCEPT ![s] = NoRows]
    /\ found' = [found EXCEPT ![s] = 0]
    /\ result' = [result EXCEPT ![s] = NoResult]
    /\ UNCHANGED <<db, model_seq>>
    /\ UNCHANGED <<gridVars, buildVars, jobVars, workerVars>>

\* _create_drawer: db.add(new_drawer); db.flush(); then _create_baseplate
\* calls BaseplateService.generate_baseplate
DrawerCreate(s) ==
    /\ spc[s] = "drawer"
    /\ pend' = [pend EXCEPT ![s] =
                    [@ EXCEPT !.drawers = @ \cup {DrawerRow(req[s].no, req[s].metadata)}]]
    /\ spc' = [spc EXCEPT ![s] = "lookup"]
    /\ UNCHANGED <<db, model_seq, requests, req, found, result>>
    /\ UNCHANGED <<gridVars, buildVars, jobVars, workerVars>>

\* _generate_bins for the request's group: get_or_create_bin_model, the Bin
\* record and db.flush(); on any exception db.rollback() and HTTP 500
DrawerBinGroup(s) ==
    /\ spc[s] = "bins"
    /\ LET hits == matching_models(VisibleModels(s), "bin", req[s].bins)
           group == [type |-> "bin", metadata |-> req[s].bins]
       IN  \E ok \in BOOLEAN :
              IF ok
              THEN /\ IF hits = {}
                      THEN /\ model_seq' = model_seq + 1
                           /\ pend' = [pend EXCEPT ![s] =
                                 [@ EXCEPT
                                    !.models = @ \cup {ModelRow(model_seq', "bin", req[s].bins)},
                                    !.files = @ \cup BuiltFiles(model_seq', group),
                                    !.bins = @ \cup {BinRow(req[s].no, model_seq', req[s].bins)}]]
                      ELSE /\ UNCHANGED model_seq
                           /\ \E m \in hits :
                                 pend' = [pend EXCEPT ![s] =
                                    [@ EXCEPT !.bins =
                                        @ \cup {BinRow(req[s].no, m.id, req[s].bins)}]]
                   /\ spc' = [spc EXCEPT ![s] = "drawer_commit"]
                   /\ UNCHANGED result
              ELSE /\ pend' = [pend EXCEPT ![s] = NoRows]
                   /\ spc' = [spc EXCEPT ![s] = "idle"]
                   /\ result' = [result EXCEPT ![s] = [status |-> "error"]]
                   /\ UNCHANGED model_seq
    /\ UNCHANGED <<db, requests, req, found>>
    /\ UNCHANGED <<gridVars, buildVars, jobVars, workerVars>>

\* the closing db.commit() of generate_drawer_models, or its failure and
\* db.rollback()
DrawerCommit(s) ==
    /\ spc[s] = "drawer_commit"
    /\ \E ok \in BOOLEAN :
          IF ok
          THEN /\ db' = Committed(pend[s])
               /\ result' = [result EXCEPT ![s] = [status |-> "ok", model_id |-> 0,
                                                    files |-> {}]]
          ELSE /\ db' = Rollback(s)
               /\ result' = [result EXCEPT ![s] = [status |-> "error"]]
    /\ pend' = [pend EXCEPT ![s] = NoRows]
    /\ spc' = [spc EXCEPT ![s] = "idle"]
    /\ UNCHANGED <<model_seq, requests, req, found>>
    /\ UNCHANGED <<gridVars, buildVars, jobVars, workerVars>>

----------------------------------------------------------------------------
(* GridfinityCustomBin.validate_dimensions and create_bin,                  *)
(* GridfinityBaseplate.create_printable_object                              *)

\* GridfinityCustomBin.__init__ and the literals of validate_dimensions
\* (tenths of mm)
MIN_BIN_SIDE == 150
MIN_BIN_HEIGHT == 100
print_bed_width == 2200
print_bed_depth == 2200

\* bin sides and heights the model draws: at, just inside and just outside
\* each bound of validate_dimensions
BinSides == {149, 150, 420, 2200, 2210}
BinHeights == {98, 99, 100, 250}

\* `value <= minimum' in place of `value < minimum'
BelowMinimumInclusive(value, minimum) == value <= minimum

\* a validation without lower bounds
NeverBelowMinimum(value, minimum) == FALSE

\* `width < 15', `depth < 15', `height < 10'
BelowMinimum(value, minimum) == value < minimum

\* `width > self.print_bed_width', `depth > self.print_bed_depth'
AboveMaximum(value, maximum) == value > maximum

\* errors.append(message) under its `if'
AppendIf(list, condition, message) ==
    IF condition THEN Append(list, message) ELSE list

\* error messages, one per constraint of validate_dimensions
WidthMin == "Width must be at least 15mm"
DepthMin == "Depth must be at least 15mm"
HeightMin == "Height must be at least 10mm"
WidthMax == "Width exceeds print bed width"
DepthMax == "Depth exceeds print bed depth"

\* a validation that stops at the first violated bound
validate_dimensions_first_only(width, depth, height) ==
    IF BelowMinimum(width, MIN_BIN_SIDE) THEN <<WidthMin>>
    ELSE IF BelowMinimum(depth, MIN_BIN_SIDE) THEN <<DepthMin>>
    ELSE IF BelowMinimum(height, MIN_BIN_HEIGHT) THEN <<HeightMin>>
    ELSE IF AboveMaximum(width, print_bed_width) THEN <<WidthMax>>
    ELSE IF AboveMaximum(depth, print_bed_depth) THEN <<DepthMax>>
    ELSE << >>

\* validate_dimensions: the errors list before `if errors: raise ValueError'
validate_dimensions(width, depth, height) ==
    LET e1 == AppendIf(<< >>, BelowMinimum(width, MIN_BIN_SIDE), WidthMin)
        e2 == AppendIf(e1, BelowMinimum(depth, MIN_BIN_SIDE), DepthMin)
        e3 == AppendIf(e2, BelowMinimum(height, MIN_BIN_HEIGHT), HeightMin)
        e4 == AppendIf(e3, AboveMaximum(width, print_bed_width), WidthMax)
        e5 == AppendIf(e4, AboveMaximum(depth, print_bed_depth), DepthMax)
    IN  e5

\* create_bin without the validation call, as in src/src/core
create_bin_entry_unvalidated == "makedirs"

\* the first statement of create_bin's try block
create_bin_entry == "validate"

\* doc_name of create_bin and of create_printable_object
BinDocName(width, depth) == <<"GrifinityBin", width, depth>>
BaseplateDocName(index) == <<"BasePlate", index, 0>>

\* calls the model issues
BinCalls ==
    [fn : {"create_bin"}, width : BinSides, depth : BinSides, height : BinHeights]
SectionCalls ==
    [fn : {"create_printable_object"}, index : {0, 1}, n_units : 1..MaxSectionUnits]

NoCall == [fn |-> "none"]
Raised(error, message) == [kind |-> "raised", error |-> error, message |-> message]
Returned == [kind |-> "returned"]
Pending == [kind |-> "none"]

\* doc_name in FreeCAD.listDocuments()
IsOpen(name) == \E d \in open_documents : d.name = name

\* FreeCAD.closeDocument(name)
CloseDocument(name) == {d \in open_documents : d.name # name}

\* what a save or mesh write leaves on disk: a file with content, an empty
\* file or nothing
WriteResults == {"written", "empty", "missing"}

\* the files on disk after writing name.ext with result w
Written(name, ext, w) ==
    LET others == {f \in files : ~(f.name = name /\ f.ext = ext)}
    IN  IF w = "missing" THEN others
        ELSE others \cup {[name |-> name, ext |-> ext, empty |-> (w = "empty")]}

\* os.path.exists(path) and os.path.getsize(path) > 0
ValidFile(disk, name, ext) ==
    \E f \in disk : f.name = name /\ f.ext = ext /\ ~f.empty

InitBuild ==
    /\ call = NoCall
    /\ bpc = "idle"
    /\ errors = << >>
    /\ outcome = Pending
    /\ doc = 0
    /\ doc_seq = 0
    /\ open_documents = {}
    /\ objects = << >>
    /\ units_left = 0
    /\ dir_exists \in BOOLEAN
    /\ files = {}
    /\ at_call = [dir_exists |-> dir_exists, files |-> {}, open_documents |-> {}]

\* a caller invokes create_bin(width, depth, height, output_dir) or
\* create_printable_object(printable_object, output_dir)
StartBuild ==
    /\ bpc = "idle"
    /\ doc_seq < MaxDocuments
    /\ \E c \in BinCalls \cup SectionCalls :
          /\ call' = c
          /\ bpc' = IF c.fn = "create_bin" THEN create_bin_entry ELSE "cpo_makedirs"
          /\ units_left' = IF c.fn = "create_bin" THEN 0 ELSE c.n_units
    /\ errors' = << >>
    /\ outcome' = Pending
    /\ doc' = 0
    /\ objects' = << >>
    /\ at_call' = [dir_exists |-> dir_exists, files |-> files,
                   open_documents |-> open_documents]
    /\ UNCHANGED <<doc_seq, open_documents, dir_exists, files>>
    /\ UNCHANGED <<gridVars, cacheVars, jobVars, workerVars>>

\* the `except Exception: logger.error(...); raise' of create_bin
BinRaise(error, message) ==
    /\ bpc' = "idle"
    /\ outcome' = Raised(error, message)

\* self.validate_dimensions(width, depth, height)
BinValidate ==
    /\ bpc = "validate"
    /\ errors' = validate_dimensions(call.width, call.depth, call.height)
    /\ IF errors' # << >>
       THEN BinRaise("ValueError", errors')
       ELSE bpc' = "makedirs" /\ UNCHANGED outcome
    /\ UNCHANGED <<call, doc, doc_seq, open_documents, objects, units_left,
                   dir_exists, files, at_call>>
    /\ UNCHANGED <<gridVars, cacheVars, jobVars, workerVars>>

\* os.makedirs(output_dir, exist_ok=True)
BinMakedirs ==
    /\ bpc = "makedirs"
    /\ \E ok \in BOOLEAN :
          IF ok THEN /\ dir_exists' = TRUE
                     /\ bpc' = "new_document"
                     /\ UNCHANGED outcome
          ELSE /\ BinRaise("OSError", <<"makedirs">>)
               /\ UNCHANGED dir_exists
    /\ UNCHANGED <<call, errors, doc, doc_seq, open_documents, objects,
                   units_left, files, at_call>>
    /\ UNCHANGED <<gridVars, cacheVars, jobVars, workerVars>>

\* doc = App.newDocument(doc_name)
BinNewDocument ==
    /\ bpc = "new_document"
    /\ doc_seq' = doc_seq + 1
    /\ doc' = doc_seq'
    /\ open_documents' = open_documents
           \cup {[id |-> doc_seq', name |-> BinDocName(call.width, call.depth)]}
    /\ bpc' = "knob"
    /\ UNCHANGED <<call, errors, outcome, objects, units_left, dir_exists,
                   files, at_call>>
    /\ UNCHANGED <<gridVars, cacheVars, jobVars, workerVars>>

\* GridfinityCustomBin.__init__, create_lip_base_profile and create_knob_unit:
\* heights in hundredths of a millimetre
knob_height == 475
bottom_thickness == 80
lip_height == 430
bin_inset == 25
inner_extension == 60
straight_extension == 180
outer_extension == 190
MIN_KNOB_UNIT == 1500
bin_grid_size == 4200

\* a length of the call (tenths of mm) in hundredths of mm
Hundredths(tenths) == 10 * tenths

\* GridfinityCustomBin.grid_divider(width, depth): the units of the bin bottom
bin_grid_divider(width, depth) ==
    LET standard_squares_x == IntDiv(width, bin_grid_size)
        standard_squares_y == IntDiv(depth, bin_grid_size)
        remaining_width == width - standard_squares_x * bin_grid_size
        remaining_depth == depth - standard_squares_y * bin_grid_size
        nx == standard_squares_x + (IF remaining_width > 0 THEN 1 ELSE 0)
        ny == standard_squares_y + (IF remaining_depth > 0 THEN 1 ELSE 0)
    IN  {[width |-> IF x < standard_squares_x THEN bin_grid_size ELSE remaining_width,
          depth |-> IF y < standard_squares_y THEN bin_grid_size ELSE remaining_depth,
          x_pos |-> x * bin_grid_size,
          y_pos |-> y * bin_grid_size] : x \in 0..(nx - 1), y \in 0..(ny - 1)}

\* knob_objects of create_knob_layer: create_knob_unit returns (None, None)
\* for a unit narrower or shallower than 15 mm
knob_objects(c) ==
    {u \in bin_grid_divider(Hundredths(c.width) - 2 * bin_inset,
                            Hundredths(c.depth) - 2 * bin_inset) :
        ~(u.width < MIN_KNOB_UNIT \/ u.depth < MIN_KNOB_UNIT)}

\* create_knob_layer returns the fused Knob_Layer, or None without knobs
HasKnobLayer(c) == knob_objects(c) # {}

\* total_height of create_lip_base_profile
lip_profile_height == straight_extension + inner_extension + outer_extension

\* a wall ring set directly on the knobs
wall_z_offset_on_knobs == knob_height

\* wall_height of create_bin
wall_height(c) == Hundredths(c.height) - bottom_thickness - lip_height - knob_height

\* wall_z_offset of create_bin
wall_z_offset == bottom_thickness + knob_height

\* lip_z_offset of create_bin
lip_z_offset(c) == wall_z_offset + wall_height(c)

\* the vertical extent of each object of the bin document
LayerZ(name, c) ==
    CASE name = "Knob_Layer" -> [z_min |-> 0, z_max |-> knob_height]
      [] name = "Bottom" ->
            [z_min |-> knob_height, z_max |-> knob_height + bottom_thickness]
      [] name = "wall_ring" ->
            [z_min |-> wall_z_offset, z_max |-> wall_z_offset + wall_height(c)]
      [] name = "lip_ring" ->
            [z_min |-> lip_z_offset(c), z_max |-> lip_z_offset(c) + lip_profile_height]

\* a build that goes from the knob layer straight to the wall ring
BinLayerSkipsBottom(stage) ==
    CASE stage = "knob" -> [object |-> "Knob_Layer", next |-> "wall"]
      [] stage = "bottom" -> [object |-> "Bottom", next |-> "wall"]
      [] stage = "wall" -> [object |-> "wall_ring", next |-> "lip"]
      [] stage = "lip" -> [object |-> "lip_ring", next |-> "save"]

\* the layer built at each position and the position after it
BinLayer(stage) ==
    CASE stage = "knob" -> [object |-> "Knob_Layer", next |-> "bottom"]
      [] stage = "bottom" -> [object |-> "Bottom", next |-> "wall"]
      [] stage = "wall" -> [object |-> "wall_ring", next |-> "lip"]
      [] stage = "lip" -> [object |-> "lip_ring", next |-> "save"]

\* create_knob_layer, create_bottom_plate, the wall create_layer and the lip
\* create_layer: each adds its object to the document or raises
BinBuildLayer ==
    /\ bpc \in {"knob", "bottom", "wall", "lip"}
    /\ \E ok \in BOOLEAN :
          IF ok THEN /\ objects' = IF bpc = "knob" /\ ~HasKnobLayer(call)
                                 THEN objects
                                 ELSE Append(objects, BinLayer(bpc).object)
                     /\ bpc' = BinLayer(bpc).next
                     /\ UNCHANGED outcome
          ELSE /\ BinRaise("Exception", <<bpc>>)
               /\ UNCHANGED objects
    /\ UNCHANGED <<call, errors, doc, doc_seq, open_documents, units_left,
                   dir_exists, files, at_call>>
    /\ UNCHANGED <<gridVars, cacheVars, jobVars, workerVars>>

\* doc.saveAs(fcstd_path)
BinSave ==
    /\ bpc = "save"
    /\ \/ \E w \in WriteResults :
             /\ files' = Written(BinDocName(call.width, call.depth), "FCStd", w)
             /\ bpc' = "stl"
             /\ UNCHANGED outcome
       \/ BinRaise("Exception", <<"saveAs">>) /\ UNCHANGED files
    /\ UNCHANGED <<call, errors, doc, doc_seq, open_documents, objects,
                   units_left, dir_exists, at_call>>
    /\ UNCHANGED <<gridVars, cacheVars, jobVars, workerVars>>

\* the tessellation loop and mesh.write(stl_path)
BinExportStl ==
    /\ bpc = "stl"
    /\ \/ \E w \in WriteResults :
             /\ files' = Written(BinDocName(call.width, call.depth), "stl", w)
             /\ bpc' = "recompute"
             /\ UNCHANGED outcome
       \/ BinRaise("Exception", <<"mesh.write">>) /\ UNCHANGED files
    /\ UNCHANGED <<call, errors, doc, doc_seq, open_documents, objects,
                   units_left, dir_exists, at_call>>
    /\ UNCHANGED <<gridVars, cacheVars, jobVars, workerVars>>

\* doc.recompute(); return doc, fcstd_path, stl_path
BinReturn ==
    /\ bpc = "recompute"
    /\ bpc' = "idle"
    /\ outcome' = Returned
    /\ UNCHANGED <<call, errors, doc, doc_seq, open_documents, objects,
                   units_left, dir_exists, files, at_call>>
    /\ UNCHANGED <<gridVars, cacheVars, jobVars, workerVars>>

\* the `except' of create_printable_object: close the document if this call
\* opened one and it is still registered, then raise
SectionRaise(error, message) ==
    /\ bpc' = "idle"
    /\ outcome' = Raised(error, message)
    /\ open_documents' =
          IF doc # 0 /\ IsOpen(BaseplateDocName(call.index))
          THEN CloseDocument(BaseplateDocName(call.index))
          ELSE open_documents

\* os.makedirs(output_dir, exist_ok=True) of create_printable_object
SectionMakedirs ==
    /\ bpc = "cpo_makedirs"
    /\ \E ok \in BOOLEAN :
          IF ok THEN /\ dir_exists' = TRUE
                     /\ bpc' = "cpo_document"
                     /\ UNCHANGED <<outcome, open_documents>>
          ELSE /\ SectionRaise("OSError", <<"makedirs">>)
               /\ UNCHANGED dir_exists
    /\ UNCHANGED <<call, errors, doc, doc_seq, objects, units_left, files, at_call>>
    /\ UNCHANGED <<gridVars, cacheVars, jobVars, workerVars>>

\* close any document of this name, then doc = FreeCAD.newDocument(doc_name)
SectionNewDocument ==
    /\ bpc = "cpo_document"
    /\ doc_seq' = doc_seq + 1
    /\ doc' = doc_seq'
    /\ open_documents' =
          (IF IsOpen(BaseplateDocName(call.index))
           THEN CloseDocument(BaseplateDocName(call.index))
           ELSE open_documents)
          \cup {[id |-> doc_seq', name |-> BaseplateDocName(call.index)]}
    /\ bpc' = "cpo_units"
    /\ UNCHANGED <<call, errors, outcome, objects, units_left, dir_exists,
                   files, at_call>>
    /\ UNCHANGED <<gridVars, cacheVars, jobVars, workerVars>>

\* shape.isNull() / shape.isValid() of the unified shape, as the geometry
\* kernel left it
ShapeStates == {"valid", "invalid", "null"}

\* validate_shape(shape, name)
validate_shape(shape) == shape = "valid"

\* the object create_unit leaves in the document: validate_shape only chooses
\* the log line, the unified object is returned either way
UnifiedObject(shape) ==
    IF validate_shape(shape) THEN "UnifiedUnit" ELSE "UnifiedUnit_invalid"

\* one pass of `for unit in printable_object.units': create_unit, the
\* dimension validation and doc.recompute(); either of the first two may raise
SectionCreateUnit ==
    /\ bpc = "cpo_units"
    /\ units_left > 0
    /\ \E ok \in BOOLEAN, shape \in ShapeStates :
          IF ok THEN /\ objects' = Append(objects, UnifiedObject(shape))
                     /\ units_left' = units_left - 1
                     /\ UNCHANGED <<bpc, outcome, open_documents>>
          ELSE /\ SectionRaise("Exception", <<"create_unit">>)
               /\ UNCHANGED <<objects, units_left>>
    /\ UNCHANGED <<call, errors, doc, doc_seq, dir_exists, files, at_call>>
    /\ UNCHANGED <<gridVars, cacheVars, jobVars, workerVars>>

\* _export_freecad_file: doc.saveAs, then the existence and size check
SectionSave ==
    /\ bpc = "cpo_units"
    /\ units_left = 0
    /\ \/ \E w \in WriteResults :
             /\ files' = Written(BaseplateDocName(call.index), "FCStd", w)
             /\ IF ValidFile(files', BaseplateDocName(call.index), "FCStd")
                THEN bpc' = "cpo_stl" /\ UNCHANGED <<outcome, open_documents>>
                ELSE SectionRaise("ValueError", <<"Failed to create valid FreeCAD file">>)
       \/ SectionRaise("Exception", <<"saveAs">>) /\ UNCHANGED files
    /\ UNCHANGED <<call, errors, doc, doc_seq, objects, units_left, dir_exists,
                   at_call>>
    /\ UNCHANGED <<gridVars, cacheVars, jobVars, workerVars>>

\* _export_stl_file: mesh.write, then the existence and size check
SectionExportStl ==
    /\ bpc = "cpo_stl"
    /\ \/ \E w \in WriteResults :
             /\ files' = Written(BaseplateDocName(call.index), "stl", w)
             /\ IF ValidFile(files', BaseplateDocName(call.index), "stl")
                THEN bpc' = "cpo_close" /\ UNCHANGED <<outcome, open_documents>>
                ELSE SectionRaise("ValueError", <<"Failed to create valid stl file">>)
       \/ SectionRaise("Exception", <<"mesh.write">>) /\ UNCHANGED files
    /\ UNCHANGED <<call, errors, doc, doc_seq, objects, units_left, dir_exists,
                   at_call>>
    /\ UNCHANGED <<gridVars, cacheVars, jobVars, workerVars>>

\* FreeCAD.closeDocument(doc_name); return doc_name, final_dimensions
SectionReturn ==
    /\ bpc = "cpo_close"
    /\ open_documents' = CloseDocument(BaseplateDocName(call.index))
    /\ bpc' = "idle"
    /\ outcome' = Returned
    /\ UNCHANGED <<call, errors, doc, doc_seq, objects, units_left, dir_exists,
                   files, at_call>>
    /\ UNCHANGED <<gridVars, cacheVars, jobVars, workerVars>>

NextBuild ==
    \/ StartBuild
    \/ BinValidate
    \/ BinMakedirs
    \/ BinNewDocument
    \/ BinBuildLayer
    \/ BinSave
    \/ BinExportStl
    \/ BinReturn
    \/ SectionMakedirs
    \/ SectionNewDocument
    \/ SectionCreateUnit
    \/ SectionSave
    \/ SectionExportStl
    \/ SectionReturn

----------------------------------------------------------------------------
(* Model file generation: BinGenerationService._generate_model_files and    *)
(* the generation part of BaseplateService.get_or_create_baseplate_model    *)

NoJob == [kind |-> "none", model_id |-> 0, sections |-> 0]

Jobs ==
    [kind : {"bin"}, sections : {1}]
    \cup [kind : {"baseplate"}, sections : 1..MaxJobSections]

\* Path(f"/tmp/bin_{model_id}"), Path(f"/tmp/baseplate_model_{new_model.id}")
TempDir(j) ==
    IF j.kind = "bin" THEN <<"/tmp/bin", j.model_id>>
    ELSE <<"/tmp/baseplate_model", j.model_id>>

\* a file in a directory: its name, its extension, whether it is empty
DiskFile(dir, name, ext, empty) ==
    [dir |-> dir, name |-> name, ext |-> ext, empty |-> empty]

\* temp_path.exists()
Exists(disk, dir, name, ext) ==
    \E f \in disk : f.dir = dir /\ f.name = name /\ f.ext = ext

\* what create_bin's doc.saveAs and mesh.write leave in output_dir: a file
\* with content, an empty file or nothing (create_bin checks neither)
Export(dir, name, ext, w) ==
    IF w = "missing" THEN {} ELSE {DiskFile(dir, name, ext, w = "empty")}

\* the (name, file type) pairs of the copy loop, in its order
BinFileName == <<"GrifinityBin", 0>>
BinTodo == <<[name |-> BinFileName, ext |-> "FCStd"],
             [name |-> BinFileName, ext |-> "stl"]>>
SectionTodo(k) == <<[name |-> <<"BasePlate", k>>, ext |-> "FCStd"],
                    [name |-> <<"BasePlate", k>>, ext |-> "stl"]>>
RECURSIVE BaseplateTodo(_)
BaseplateTodo(n) ==
    IF n = 0 THEN << >> ELSE BaseplateTodo(n - 1) \o SectionTodo(n - 1)

\* the files generate_baseplate leaves for sections 0..n-1: each passed
\* create_printable_object's existence and size checks
SectionFiles(dir, n) ==
    {DiskFile(dir, <<"BasePlate", k>>, ext, FALSE) :
        k \in 0..(n - 1), ext \in {"FCStd", "stl"}}

\* shutil.rmtree(temp_dir): the directory and the files in it
RmtreeDirs(dir) == temp_dirs \ {dir}
RmtreeFiles(dir) == {f \in temp_files : f.dir # dir}

InitJob ==
    /\ job = NoJob
    /\ jpc = "idle"
    /\ todo = << >>
    /\ temp_dirs = {}
    /\ temp_files = {}
    /\ permanent_files = {}
    /\ generated_files = {}
    /\ pending_exc = "none"
    /\ job_outcome = Pending
    /\ job_seq = 0

\* the service flushed a new Model and starts generating its files
StartJob ==
    /\ jpc = "idle"
    /\ job_seq < MaxJobs
    /\ job_seq' = job_seq + 1
    /\ \E j \in Jobs :
          job' = [kind |-> j.kind, model_id |-> job_seq', sections |-> j.sections]
    /\ jpc' = "temp_mkdir"
    /\ todo' = << >>
    /\ generated_files' = {}
    /\ pending_exc' = "none"
    /\ job_outcome' = Pending
    /\ UNCHANGED <<temp_dirs, temp_files, permanent_files>>
    /\ UNCHANGED <<gridVars, cacheVars, buildVars, workerVars>>

\* an exception leaves the generation. _generate_model_files: `except: raise'
\* followed by `finally'. get_or_create_baseplate_model: `except: raise' only.
JobFail(error) ==
    IF job.kind = "bin"
    THEN /\ jpc' = "finally"
         /\ pending_exc' = error
         /\ UNCHANGED job_outcome
    ELSE /\ jpc' = "idle"
         /\ job_outcome' = Raised(error, <<jpc>>)
         /\ UNCHANGED pending_exc

\* temp_dir.mkdir(exist_ok=True); in _generate_model_files it is before `try'
JobTempMkdir ==
    /\ jpc = "temp_mkdir"
    /\ \E ok \in BOOLEAN :
          IF ok THEN /\ temp_dirs' = temp_dirs \cup {TempDir(job)}
                     /\ jpc' = IF job.kind = "bin" THEN "create_bin"
                               ELSE "permanent_mkdir"
                     /\ UNCHANGED job_outcome
          ELSE /\ jpc' = "idle"
               /\ job_outcome' = Raised("OSError", <<jpc>>)
               /\ UNCHANGED temp_dirs
    /\ UNCHANGED <<job, todo, temp_files, permanent_files, generated_files,
                   pending_exc, job_seq>>
    /\ UNCHANGED <<gridVars, cacheVars, buildVars, workerVars>>

\* doc, fcstd_path, stl_path = bin_maker.create_bin(w, d, h, str(temp_dir))
JobCreateBin ==
    /\ jpc = "create_bin"
    /\ \E w1 \in WriteResults :
          \/ \E w2 \in WriteResults :
                /\ temp_files' = temp_files
                      \cup Export(TempDir(job), BinFileName, "FCStd", w1)
                      \cup Export(TempDir(job), BinFileName, "stl", w2)
                /\ todo' = BinTodo
                /\ jpc' = "permanent_mkdir"
                /\ UNCHANGED <<pending_exc, job_outcome>>
          \/ /\ temp_files' = temp_files
                   \cup Export(TempDir(job), BinFileName, "FCStd", w1)
             /\ JobFail("Exception")
             /\ UNCHANGED todo
    /\ UNCHANGED <<job, temp_dirs, permanent_files, generated_files, job_seq>>
    /\ UNCHANGED <<gridVars, cacheVars, buildVars, workerVars>>

\* permanent_dir.mkdir(parents=True, exist_ok=True)
JobPermanentMkdir ==
    /\ jpc = "permanent_mkdir"
    /\ \E ok \in BOOLEAN :
          IF ok THEN /\ jpc' = IF job.kind = "bin" THEN "copy" ELSE "generate"
                     /\ UNCHANGED <<pending_exc, job_outcome>>
          ELSE JobFail("OSError")
    /\ UNCHANGED <<job, todo, temp_dirs, temp_files, permanent_files,
                   generated_files, job_seq>>
    /\ UNCHANGED <<gridVars, cacheVars, buildVars, workerVars>>

\* sections = baseplate_maker.generate_baseplate(str(temp_dir)): every section
\* is built, or a section raises after k of them were written
JobGenerateBaseplate ==
    /\ jpc = "generate"
    /\ \/ /\ temp_files' = temp_files \cup SectionFiles(TempDir(job), job.sections)
          /\ todo' = BaseplateTodo(job.sections)
          /\ jpc' = "copy"
          /\ UNCHANGED <<pending_exc, job_outcome>>
       \/ \E k \in 0..(job.sections - 1) :
             /\ temp_files' = temp_files \cup SectionFiles(TempDir(job), k)
             /\ JobFail("Exception")
             /\ UNCHANGED todo
    /\ UNCHANGED <<job, temp_dirs, permanent_files, generated_files, job_seq>>
    /\ UNCHANGED <<gridVars, cacheVars, buildVars, workerVars>>

\* one pass of the copy loop: the exists() test, shutil.copy2 and the
\* GeneratedFile record
JobCopy ==
    /\ jpc = "copy"
    /\ todo # << >>
    /\ LET f == Head(todo)
       IN  IF ~Exists(temp_files, TempDir(job), f.name, f.ext)
           THEN /\ JobFail("HTTPException")
                /\ UNCHANGED <<todo, permanent_files, generated_files>>
           ELSE \/ /\ permanent_files' = permanent_files \cup
                         {DiskFile(<<job.kind, job.model_id>>, g.name, g.ext, g.empty) :
                            g \in {h \in temp_files : /\ h.dir = TempDir(job)
                                                       /\ h.name = f.name
                                                       /\ h.ext = f.ext}}
                   /\ generated_files' = generated_files \cup
                         {[model_id |-> job.model_id, name |-> f.name,
                           file_type |-> f.ext]}
                   /\ todo' = Tail(todo)
                   /\ UNCHANGED <<jpc, pending_exc, job_outcome>>
                \/ /\ JobFail("Exception")
                   /\ UNCHANGED <<todo, permanent_files, generated_files>>
    /\ UNCHANGED <<job, temp_dirs, temp_files, job_seq>>
    /\ UNCHANGED <<gridVars, cacheVars, buildVars, workerVars>>

\* _generate_model_files: the loop is over, control reaches `finally'
JobLoopDone ==
    /\ jpc = "copy"
    /\ todo = << >>
    /\ job.kind = "bin"
    /\ jpc' = "finally"
    /\ UNCHANGED <<job, todo, temp_dirs, temp_files, permanent_files,
                   generated_files, pending_exc, job_outcome, job_seq>>
    /\ UNCHANGED <<gridVars, cacheVars, buildVars, workerVars>>

\* _generate_model_files: `finally: if temp_dir.exists(): shutil.rmtree',
\* then `return generated_files' or the exception in flight
JobFinally ==
    /\ jpc = "finally"
    /\ temp_dirs' = IF TempDir(job) \in temp_dirs
                    THEN RmtreeDirs(TempDir(job)) ELSE temp_dirs
    /\ temp_files' = IF TempDir(job) \in temp_dirs
                     THEN RmtreeFiles(TempDir(job)) ELSE temp_files
    /\ job_outcome' = IF pending_exc = "none" THEN Returned
                      ELSE Raised(pending_exc, <<"generate">>)
    /\ pending_exc' = "none"
    /\ jpc' = "idle"
    /\ UNCHANGED <<job, todo, permanent_files, generated_files, job_seq>>
    /\ UNCHANGED <<gridVars, cacheVars, buildVars, workerVars>>

\* get_or_create_baseplate_model: shutil.rmtree(temp_dir); return new_model
JobBaseplateReturn ==
    /\ jpc = "copy"
    /\ todo = << >>
    /\ job.kind = "baseplate"
    /\ temp_dirs' = RmtreeDirs(TempDir(job))
    /\ temp_files' = RmtreeFiles(TempDir(job))
    /\ job_outcome' = Returned
    /\ jpc' = "idle"
    /\ UNCHANGED <<job, todo, permanent_files, generated_files, pending_exc,
                   job_seq>>
    /\ UNCHANGED <<gridVars, cacheVars, buildVars, workerVars>>

NextJob ==
    \/ StartJob
    \/ JobTempMkdir
    \/ JobCreateBin
    \/ JobPermanentMkdir
    \/ JobGenerateBaseplate
    \/ JobCopy
    \/ JobLoopDone
    \/ JobFinally
    \/ JobBaseplateReturn

----------------------------------------------------------------------------
(* Concurrent baseplate generations: generate_baseplate,                    *)
(* create_printable_object and cleanup_documents sharing FreeCAD's registry *)

\* two callers of generate_baseplate in one FreeCAD process
Workers == {1, 2}

\* the part of the build state the workers leave alone
buildRest == <<call, bpc, errors, outcome, doc, objects, units_left, dir_exists,
               files, at_call>>

\* worker w is building in a document it opened
Building(w) == wpc[w] \in {"units", "close"} /\ wdoc[w] # 0

\* the worker, if any, that is building in document d
OwnersOf(d) == {v \in Workers : Building(v) /\ wdoc[v] = d.id}

\* <<w, owner>> for every document of docs that another worker is building in
ClosedForeign(w, docs) ==
    {<<w, v>> : v \in UNION {OwnersOf(d) \ {w} : d \in docs}}

\* the documents registered under a name
DocsNamed(name) == {d \in open_documents : d.name = name}

\* the document worker w opened is still registered
OwnDocOpen(w) == \E d \in open_documents : d.id = wdoc[w]

InitWorkers ==
    /\ wpc = [w \in Workers |-> "idle"]
    /\ wsections = [w \in Workers |-> 0]
    /\ windex = [w \in Workers |-> 0]
    /\ wdoc = [w \in Workers |-> 0]
    /\ wruns = [w \in Workers |-> 0]
    /\ foreign_closed = {}

\* generate_baseplate: grid_divider and printable_object_selector gave the
\* printable objects, indexed from 0
WorkerStart(w) ==
    /\ wpc[w] = "idle"
    /\ wruns[w] < MaxWorkerRuns
    /\ wruns' = [wruns EXCEPT ![w] = @ + 1]
    /\ \E n \in 1..MaxJobSections : wsections' = [wsections EXCEPT ![w] = n]
    /\ windex' = [windex EXCEPT ![w] = 0]
    /\ wdoc' = [wdoc EXCEPT ![w] = 0]
    /\ wpc' = [wpc EXCEPT ![w] = "new_document"]
    /\ UNCHANGED <<foreign_closed, open_documents, doc_seq, buildRest>>
    /\ UNCHANGED <<gridVars, cacheVars, jobVars>>

\* create_printable_object: `if doc_name in FreeCAD.listDocuments():
\* FreeCAD.closeDocument(doc_name)', then doc = FreeCAD.newDocument(doc_name)
WorkerNewDocument(w) ==
    /\ wpc[w] = "new_document"
    /\ LET name == BaseplateDocName(windex[w])
       IN  /\ doc_seq' = doc_seq + 1
           /\ open_documents' = (open_documents \ DocsNamed(name))
                                \cup {[id |-> doc_seq', name |-> name]}
           /\ foreign_closed' = foreign_closed \cup ClosedForeign(w, DocsNamed(name))
    /\ wdoc' = [wdoc EXCEPT ![w] = doc_seq']
    /\ wpc' = [wpc EXCEPT ![w] = "units"]
    /\ UNCHANGED <<wsections, windex, wruns, buildRest>>
    /\ UNCHANGED <<gridVars, cacheVars, jobVars>>

\* the `except' of create_printable_object, entered by worker w: close the
\* document registered under doc_name, whoever opened it, and raise through
\* generate_baseplate
WorkerRaise(w) ==
    /\ open_documents' = open_documents \ DocsNamed(BaseplateDocName(windex[w]))
    /\ foreign_closed' = foreign_closed
           \cup ClosedForeign(w, DocsNamed(BaseplateDocName(windex[w])))
    /\ wpc' = [wpc EXCEPT ![w] = "idle"]
    /\ wdoc' = [wdoc EXCEPT ![w] = 0]

\* the units and the two exports of a section: they succeed only in a
\* document that is still open, and may raise in any case
WorkerBuildSection(w) ==
    /\ wpc[w] = "units"
    /\ \/ /\ OwnDocOpen(w)
          /\ wpc' = [wpc EXCEPT ![w] = "close"]
          /\ UNCHANGED <<open_documents, foreign_closed, wdoc>>
       \/ WorkerRaise(w)
    /\ UNCHANGED <<wsections, windex, wruns, doc_seq, buildRest>>
    /\ UNCHANGED <<gridVars, cacheVars, jobVars>>

\* FreeCAD.closeDocument(doc_name) at the end of create_printable_object (it
\* raises when no document has the name), then the next printable object
WorkerCloseSection(w) ==
    /\ wpc[w] = "close"
    /\ IF DocsNamed(BaseplateDocName(windex[w])) = {}
       THEN WorkerRaise(w) /\ UNCHANGED windex
       ELSE /\ open_documents' =
                  open_documents \ DocsNamed(BaseplateDocName(windex[w]))
            /\ foreign_closed' = foreign_closed
                  \cup ClosedForeign(w, DocsNamed(BaseplateDocName(windex[w])))
            /\ wdoc' = [wdoc EXCEPT ![w] = 0]
            /\ IF windex[w] + 1 < wsections[w]
               THEN /\ windex' = [windex EXCEPT ![w] = @ + 1]
                    /\ wpc' = [wpc EXCEPT ![w] = "new_document"]
               ELSE /\ wpc' = [wpc EXCEPT ![w] = "cleanup"]
                    /\ UNCHANGED windex
    /\ UNCHANGED <<wsections, wruns, doc_seq, buildRest>>
    /\ UNCHANGED <<gridVars, cacheVars, jobVars>>

\* self.cleanup_documents(): close every open document; return created_files
WorkerCleanup(w) ==
    /\ wpc[w] = "cleanup"
    /\ open_documents' = {}
    /\ foreign_closed' = foreign_closed \cup ClosedForeign(w, open_documents)
    /\ wpc' = [wpc EXCEPT ![w] = "idle"]
    /\ UNCHANGED <<wsections, windex, wdoc, wruns, doc_seq, buildRest>>
    /\ UNCHANGED <<gridVars, cacheVars, jobVars>>

NextWorkers ==
    \E w \in Workers :
        \/ WorkerStart(w)
        \/ WorkerNewDocument(w)
        \/ WorkerBuildSection(w)
        \/ WorkerCloseSection(w)
        \/ WorkerCleanup(w)

----------------------------------------------------------------------------
(* Specifications *)

\* one baseplate partition and packing
Init == InitGrid /\ InitCache /\ InitBuild /\ InitJob /\ InitWorkers /\ dir_exists = FALSE

Spec == Init /\ [][NextGrid]_vars

\* generate_baseplate runs on: a single thread executes the two loops, so a
\* step that can be taken is taken
SpecSelector == Init /\ [][NextGrid]_vars /\ WF_vars(NextGrid)

InitCacheSpec ==
    IdleGrid /\ InitCache /\ InitBuild /\ InitJob /\ InitWorkers /\ dir_exists = FALSE

\* generation requests served one at a time by one session
NextCacheSeq ==
    \/ StartRequest(1)
    \/ Lookup(1)
    \/ Reuse(1)
    \/ InsertModel(1)
    \/ BuildFiles(1)
    \/ CommitNew(1)

SpecCacheSeq == InitCacheSpec /\ [][NextCacheSeq]_vars

\* the three generation endpoints served one request at a time
NextDrawer ==
    \/ StartRequest(1)
    \/ StartDrawerRequest(1)
    \/ DrawerCreate(1)
    \/ Lookup(1)
    \/ Reuse(1)
    \/ InsertModel(1)
    \/ BuildFiles(1)
    \/ CommitNew(1)
    \/ DrawerBinGroup(1)
    \/ DrawerCommit(1)

SpecDrawer == InitCacheSpec /\ [][NextDrawer]_vars

\* generation requests served by concurrent sessions
NextCache ==
    \E s \in Sessions :
        \/ StartRequest(s)
        \/ Lookup(s)
        \/ Reuse(s)
        \/ InsertModel(s)
        \/ BuildFiles(s)
        \/ CommitNew(s)

SpecCache == InitCacheSpec /\ [][NextCache]_vars

InitBuildSpec == IdleGrid /\ InitCache /\ InitBuild /\ InitJob /\ InitWorkers

\* module builds run one after the other in one FreeCAD process
SpecBuild == InitBuildSpec /\ [][NextBuild]_vars

InitJobSpec ==
    IdleGrid /\ InitCache /\ InitBuild /\ InitJob /\ InitWorkers /\ dir_exists = FALSE

\* model file generations run one after the other
SpecJob == InitJobSpec /\ [][NextJob]_vars

InitWorkersSpec ==
    IdleGrid /\ InitCache /\ InitBuild /\ InitJob /\ InitWorkers /\ dir_exists = FALSE

\* baseplate generations interleaved in one FreeCAD process
SpecWorkers == InitWorkersSpec /\ [][NextWorkers]_vars

----------------------------------------------------------------------------
(* Properties of the partition and the packing *)

\* number of places <<k, j>> where unit u sits in the selected sections
Placements(u) ==
    {kj \in UNION {{<<k, j>> : j \in 1..Len(selected_log[k])} :
                       k \in 1..Len(selected_log)} :
        selected_log[kj[1]][kj[2]] = u}

\* C1: when printable_object_selector returns, every cell of grid_divider is
\* in exactly one printable object: none is left out and none is in two.
C1_EveryCellInExactlyOneObject ==
    gpc = "returned" =>
        \A i \in 1..Len(units) : Cardinality(Placements(units[i])) = 1

\* two cells share interior points
Overlap(a, b) ==
    /\ a.x_offset < b.x_offset + b.width
    /\ b.x_offset < a.x_offset + a.width
    /\ a.y_offset < b.y_offset + b.depth
    /\ b.y_offset < a.y_offset + a.depth

RECURSIVE TotalArea(_)
TotalArea(s) ==
    IF s = << >> THEN 0 ELSE Head(s).width * Head(s).depth + TotalArea(Tail(s))

\* the cells s tile [0, W] x [0, D]: inside it, pairwise disjoint, same area
Tiles(s, W, D) ==
    /\ \A i \in 1..Len(s) :
          /\ s[i].width > 0 /\ s[i].depth > 0
          /\ s[i].x_offset >= 0 /\ s[i].x_offset + s[i].width <= W
          /\ s[i].y_offset >= 0 /\ s[i].y_offset + s[i].depth <= D
    /\ \A i, j \in 1..Len(s) : i # j => ~Overlap(s[i], s[j])
    /\ TotalArea(s) = W * D

\* C2: the cells of grid_divider tile the drawer footprint [0,W] x [0,D]
\* exactly: no overlaps and no gaps.
C2_CellsTileFootprint ==
    gpc # "divide" => Tiles(units, drawer_width, drawer_depth)

\* C3: grid_divider returns ceil(W/grid_size) * ceil(D/grid_size) cells, with
\* num_squares_x = ceil(W/grid_size) and num_squares_y = ceil(D/grid_size).
C3_CellCountIsCeiling ==
    gpc # "divide" =>
        /\ num_squares(drawer_width, config) = Ceil(drawer_width, config.GRID_SIZE)
        /\ num_squares(drawer_depth, config) = Ceil(drawer_depth, config.GRID_SIZE)
        /\ Len(units) = Ceil(drawer_width, config.GRID_SIZE)
                        * Ceil(drawer_depth, config.GRID_SIZE)

\* bounding box of a printable object: max of offset + size in each axis
BoundingWidth(obj) ==
    Max({obj.units[i].x_offset + obj.units[i].width : i \in 1..Len(obj.units)})
BoundingDepth(obj) ==
    Max({obj.units[i].y_offset + obj.units[i].depth : i \in 1..Len(obj.units)})

\* C4: every printable object's bounding box is no larger than the print
\* bed, PRINT_BED_WIDTH x PRINT_BED_DEPTH.
C4_ObjectsFitPrintBed ==
    \A k \in 1..Len(printable_objects) :
        /\ BoundingWidth(printable_objects[k]) <= config.PRINT_BED_WIDTH
        /\ BoundingDepth(printable_objects[k]) <= config.PRINT_BED_DEPTH

\* a drawer larger than the default bed in both axes was packed into several
\* objects, one of them as wide as the bed allows
\* the selector's result is the run of its loops
SelectorAgreesWithPack ==
    (gpc = "returned" /\ config = DefaultConfig) =>
        Len(printable_objects) = section_count(drawer_width, drawer_depth)

C4_Witness ==
    /\ gpc = "returned"
    /\ config = DefaultConfig
    /\ drawer_width > config.PRINT_BED_WIDTH
    /\ drawer_depth > config.PRINT_BED_DEPTH
    /\ Len(printable_objects) >= 2
    /\ \E k \in 1..Len(printable_objects) :
          BoundingWidth(printable_objects[k])
              = IntDiv(config.PRINT_BED_WIDTH, config.GRID_SIZE) * config.GRID_SIZE

\* the x offsets and the leftover sides of the partition in `units'
XOffsets == {units[i].x_offset : i \in 1..Len(units)}
RemainingWidth == drawer_width % config.GRID_SIZE
RemainingDepth == drawer_depth % config.GRID_SIZE

\* C13: in grid_divider, when 0 < remaining_depth < grid_size the leftover row
\* is the row at y_offset 0 and every other row has depth grid_size and
\* y_offset remaining_depth + (k-1)*grid_size; when 0 < remaining_width the
\* leftover column is the one with the largest x_offset; no x offset is
\* shifted (each is a multiple of grid_size).
C13_LeftoverRowFirstColumnLast ==
    gpc # "divide" =>
        LET G == config.GRID_SIZE
        IN  /\ \A i \in 1..Len(units) : units[i].x_offset % G = 0
            /\ RemainingDepth > 0 =>
                  /\ \E i \in 1..Len(units) : units[i].y_offset = 0
                  /\ \A i \in 1..Len(units) :
                        IF units[i].y_offset = 0
                        THEN units[i].depth = RemainingDepth
                        ELSE /\ units[i].depth = G
                             /\ units[i].y_offset >= RemainingDepth
                             /\ (units[i].y_offset - RemainingDepth) % G = 0
            /\ RemainingWidth > 0 =>
                  \A i \in 1..Len(units) :
                      IF units[i].x_offset = Max(XOffsets)
                      THEN units[i].width = RemainingWidth
                      ELSE units[i].width = G

\* the smallest x and y offset of a list of units
MinX(us) == Min({us[i].x_offset : i \in 1..Len(us)})
MinY(us) == Min({us[i].y_offset : i \in 1..Len(us)})

\* C14: each printable object's cells are the selected cells translated by
\* (-min x_offset, -min y_offset): the object's minimum x_offset and minimum
\* y_offset are 0, every cell keeps its width, depth and is_standard, and the
\* cells passed to printable_object_selector are not modified.
C14_ObjectsRebasedToOrigin ==
    /\ Len(printable_objects) = Len(selected_log)
    /\ \A k \in 1..Len(printable_objects) :
          LET obj == printable_objects[k].units
              sel == selected_log[k]
          IN  /\ Len(obj) = Len(sel)
              /\ MinX(obj) = 0
              /\ MinY(obj) = 0
              /\ \A i \in 1..Len(obj) :
                    /\ obj[i].width = sel[i].width
                    /\ obj[i].depth = sel[i].depth
                    /\ obj[i].is_standard = sel[i].is_standard
                    /\ obj[i].x_offset = sel[i].x_offset - MinX(sel)
                    /\ obj[i].y_offset = sel[i].y_offset - MinY(sel)
                    /\ InSeq(sel[i], units)
    /\ gpc # "divide" => units = grid_divider(drawer_width, drawer_depth, config)

\* the selector returned an object whose cells lay away from the drawer's
\* origin in both axes
C14_Witness ==
    /\ gpc = "returned"
    /\ \E k \in 1..Len(selected_log) :
          /\ MinX(selected_log[k]) > 0
          /\ MinY(selected_log[k]) > 0
          /\ Len(selected_log[k]) > 1

\* the print-bed sections a grid of nx by ny squares needs
SectionsNeeded(nx, ny, cfg) ==
    Ceil(nx, IntDiv(cfg.PRINT_BED_WIDTH, cfg.GRID_SIZE))
        * Ceil(ny, IntDiv(cfg.PRINT_BED_DEPTH, cfg.GRID_SIZE))

\* C20: printable_object_selector returns as many printable objects as the
\* grid needs print-bed sections,
\* ceil(num_squares_x / floor(bed_width/grid_size))
\*   * ceil(num_squares_y / floor(bed_depth/grid_size)).
C20_ObjectCountIsSectionsNeeded ==
    gpc = "returned" =>
        Len(printable_objects) =
            SectionsNeeded(num_squares(drawer_width, config),
                           num_squares(drawer_depth, config), config)

----------------------------------------------------------------------------
(* Properties of the model reuse cache *)

\* the persisted models with exactly the request's fingerprint
SameFingerprint(r) ==
    {m \in db.models : m.type = r.type /\ m.model_metadata = r.metadata}

\* session s finishes its request successfully in this step
Succeeds(s) == spc[s] # "idle" /\ spc'[s] = "idle" /\ result'[s].status = "ok"

\* C5: sequential builds share a persisted Model exactly when their
\* fingerprints are identical: a successful call whose fingerprint is already
\* persisted returns that model's id and adds no Model or GeneratedFile row,
\* and a call with a fingerprint that differs in any dimension creates a new
\* Model.
C5_SharedExactlyOnSameFingerprint ==
    [][\A s \in Sessions :
          Succeeds(s) =>
             IF SameFingerprint(req[s]) # {}
             THEN /\ result'[s].model_id \in {m.id : m \in SameFingerprint(req[s])}
                  /\ db'.models = db.models
                  /\ db'.files = db.files
             ELSE /\ result'[s].model_id \notin {m.id : m \in db.models}
                  /\ db'.models \ db.models =
                        {ModelRow(result'[s].model_id, req[s].type, req[s].metadata)}
      ]_vars

\* three bins are persisted: two share one model, the third has another
C5_Witness ==
    \E b1, b2, b3 \in db.bins :
        /\ b1.id # b2.id
        /\ b1.model_id = b2.model_id
        /\ b1.dims = b2.dims
        /\ b3.model_id # b1.model_id
        /\ b3.dims # b1.dims

\* C6: under any interleaving of two concurrent get-or-create requests for
\* the same new fingerprint, at most one Model row with that fingerprint is
\* persisted.
C6_AtMostOneModelPerFingerprint ==
    \A m1, m2 \in db.models :
        (m1.type = m2.type /\ m1.model_metadata = m2.model_metadata) => m1 = m2

----------------------------------------------------------------------------
(* Properties of the module builds *)

\* the call in `call' is a create_bin whose validation has run
BinValidated == call.fn = "create_bin" /\ bpc # "validate"

\* the messages of the bounds a bin request violates: width < 15 mm,
\* depth < 15 mm, height < 10 mm, width > 220 mm, depth > 220 mm
ViolatedBounds(c) ==
    {m \in {WidthMin, DepthMin, HeightMin, WidthMax, DepthMax} :
        \/ m = WidthMin /\ c.width < 150
        \/ m = DepthMin /\ c.depth < 150
        \/ m = HeightMin /\ c.height < 100
        \/ m = WidthMax /\ c.width > 2200
        \/ m = DepthMax /\ c.depth > 2200}

\* C7: validate_dimensions reports all violated bounds together: the raised
\* error names exactly the violated constraints, never only the first one.
C7_AllViolationsReported ==
    BinValidated =>
        /\ {errors[i] : i \in 1..Len(errors)} = ViolatedBounds(call)
        /\ Len(errors) = Cardinality(ViolatedBounds(call))
        /\ ViolatedBounds(call) # {} => outcome = Raised("ValueError", errors)

\* a bin 14.9 x 14.9 x 9.9 mm was rejected with its three messages
C7_Witness ==
    /\ BinValidated
    /\ call.width = 149 /\ call.depth = 149 /\ call.height = 99
    /\ outcome = Raised("ValueError", <<WidthMin, DepthMin, HeightMin>>)

\* C8: bin validation passes if and only if 15 <= width <= 220,
\* 15 <= depth <= 220 and height >= 10; a request with one dimension just
\* outside fails with the message for that dimension only.
C8_BoundsInclusive ==
    BinValidated =>
        LET width_ok == 150 <= call.width /\ call.width <= 2200
            depth_ok == 150 <= call.depth /\ call.depth <= 2200
            height_ok == call.height >= 100
        IN  /\ (errors = << >>) <=> (width_ok /\ depth_ok /\ height_ok)
            /\ (errors = << >>) <=>
                  ~(outcome.kind = "raised" /\ outcome.error = "ValueError")
            /\ (call.width = 149 /\ depth_ok /\ height_ok) => errors = <<WidthMin>>
            /\ (width_ok /\ call.depth = 149 /\ height_ok) => errors = <<DepthMin>>
            /\ (width_ok /\ depth_ok /\ call.height = 99) => errors = <<HeightMin>>
            /\ (width_ok /\ call.depth = 2210 /\ height_ok) => errors = <<DepthMax>>

\* a bin 15 x 15 x 10 mm passed validation and was built
C8_Witness ==
    /\ call.fn = "create_bin"
    /\ call.width = 150 /\ call.depth = 150 /\ call.height = 100
    /\ outcome = Returned

\* C9: create_bin validates first: when a bound is violated it raises before
\* creating the output directory, opening a document or constructing any
\* geometry, and writes no file.
C9_ValidationBeforeAnyWork ==
    (call.fn = "create_bin" /\ ViolatedBounds(call) # {}) =>
        /\ bpc \in {"validate", "idle"}
        /\ bpc = "idle" => outcome.kind = "raised"
        /\ dir_exists = at_call.dir_exists
        /\ open_documents = at_call.open_documents
        /\ files = at_call.files
        /\ doc = 0
        /\ objects = << >>

\* a bin with a depth over the print bed was rejected while the output
\* directory did not exist
C9_Witness ==
    /\ call.fn = "create_bin"
    /\ call.depth = 2210
    /\ bpc = "idle"
    /\ outcome.kind = "raised"
    /\ ~at_call.dir_exists

\* C10: every module build closes its working document on every exit path:
\* after create_bin or create_printable_object returns or raises, the
\* document it opened is no longer in the open-document registry.
C10_DocumentClosedOnExit ==
    (bpc = "idle" /\ outcome.kind # "none" /\ doc # 0) =>
        \A d \in open_documents : d.id # doc

\* C18: if more than one persisted Model matches the requested fingerprint,
\* the get-or-create operations raise an error instead of silently picking
\* one of the matches.
C18_MultipleMatchesRaise ==
    [][\A s \in Sessions :
          (/\ spc[s] = "lookup"
           /\ Cardinality(matching_models(VisibleModels(s), req[s].type,
                                          req[s].metadata)) > 1)
          => (spc'[s] = "lookup"
              \/ (spc'[s] = "idle" /\ result'[s].status = "error"))]_vars

----------------------------------------------------------------------------
(* Atomicity of generate_bin *)

\* the rows of the database that belong to model id
RowsOfModel(id) ==
    [models |-> {m \in db.models : m.id = id},
     files |-> {f \in db.files : f.model_id = id},
     bins |-> {b \in db.bins : b.model_id = id},
     baseplates |-> {},
     drawers |-> {}]

----------------------------------------------------------------------------
(* Properties of the model file generation *)

\* the generation in `job' has ended
JobEnded == jpc = "idle" /\ job_outcome.kind # "none"

\* C11: the temporary working directory of a model build is removed on every
\* exit path: once the generation has returned or raised, its /tmp directory
\* is no longer on disk.
C11_TempDirRemovedOnExit ==
    JobEnded => TempDir(job) \notin temp_dirs

\* the files a successful generation of `job' must have produced
ExpectedFiles ==
    LET t == IF job.kind = "bin" THEN BinTodo ELSE BaseplateTodo(job.sections)
    IN  {t[i] : i \in 1..Len(t)}

\* C17: a module build fails whenever the CAD file or the mesh file is
\* missing or empty after export: a generation that reports success has
\* stored a non-empty FCStd and a non-empty STL file.
C17_SuccessMeansNonEmptyFiles ==
    (JobEnded /\ job_outcome = Returned) =>
        \A t \in ExpectedFiles :
            \E f \in permanent_files :
                /\ f.dir = <<job.kind, job.model_id>>
                /\ f.name = t.name
                /\ f.ext = t.ext
                /\ ~f.empty

----------------------------------------------------------------------------
(* Properties of the bin geometry *)

\* the objects of the bin document by name
BinObjects == {objects[i] : i \in 1..Len(objects)}

\* C15: create_bin stacks the layers contiguously for every valid height:
\* bottom plate at Z = knob_height, wall ring at Z = bottom_thickness +
\* knob_height with height = height - bottom_thickness - lip_height -
\* knob_height, lip ring at Z = wall Z-offset + wall height, and the top of
\* the lip at Z = the requested height.
C15_LayersStackedContiguously ==
    (call.fn = "create_bin" /\ "lip_ring" \in BinObjects) =>
        LET bottom == LayerZ("Bottom", call)
            wall == LayerZ("wall_ring", call)
            lip == LayerZ("lip_ring", call)
        IN  /\ {"Bottom", "wall_ring"} \subseteq BinObjects
            /\ bottom.z_min = 475
            /\ bottom.z_max = wall.z_min
            /\ wall.z_min = 80 + 475
            /\ wall.z_max - wall.z_min = Hundredths(call.height) - 80 - 430 - 475
            /\ wall.z_max > wall.z_min
            /\ lip.z_min = wall.z_max
            /\ lip.z_max = Hundredths(call.height)

\* a bin of the minimum height, 10 mm, was built with all its layers
C15_Witness ==
    /\ call.fn = "create_bin"
    /\ call.height = 100
    /\ outcome = Returned
    /\ "lip_ring" \in BinObjects

\* C16: for every (width, depth, height) accepted by validation the assembled
\* bin's vertical extent is the requested height: the lowest solid starts at
\* Z = 0 (a knob layer is present) and the highest ends at Z = height.
C16_BinExtentIsRequestedHeight ==
    (call.fn = "create_bin" /\ outcome = Returned) =>
        LET lowest == Min({LayerZ(o, call).z_min : o \in BinObjects})
            highest == Max({LayerZ(o, call).z_max : o \in BinObjects})
        IN  /\ "Knob_Layer" \in BinObjects
            /\ lowest = 0
            /\ highest = Hundredths(call.height)
            /\ highest - lowest =
                  bottom_thickness + wall_height(call) + lip_height + knob_height

----------------------------------------------------------------------------
(* Properties of concurrent builds *)

\* C19: two builds running concurrently never use the same FreeCAD document
\* name, so no build closes or replaces a document another build is working
\* in.
C19_ConcurrentBuildsUseDistinctDocuments ==
    /\ \A v, w \in Workers :
          (v # w /\ Building(v) /\ Building(w)) =>
              BaseplateDocName(windex[v]) # BaseplateDocName(windex[w])
    /\ foreign_closed = {}

----------------------------------------------------------------------------
(* Stage order of one bin build *)

\* the stage of the build state machine a position of create_bin belongs to;
\* creating the output directory and the document precedes the first layer
StageOf(position) ==
    CASE position = "validate" -> "Validating"
      [] position \in {"makedirs", "new_document", "knob"} -> "Building(knob)"
      [] position = "bottom" -> "Building(bottom)"
      [] position = "wall" -> "Building(wall)"
      [] position = "lip" -> "Building(lip)"
      [] position = "save" -> "Exporting(cad)"
      [] position \in {"stl", "recompute"} -> "Exporting(mesh)"
      [] OTHER -> "Done"

StageOrder ==
    <<"Validating", "Building(knob)", "Building(bottom)", "Building(wall)",
      "Building(lip)", "Exporting(cad)", "Exporting(mesh)", "Done">>

StageIndex(stage) == CHOOSE i \in 1..Len(StageOrder) : StageOrder[i] = stage

\* C21: one bin build passes through Validating, Building(knob),
\* Building(bottom), Building(wall), Building(lip), Exporting(cad),
\* Exporting(mesh), Done in this order: a successful build skips and reorders
\* no stage, and a failure in any stage ends the build with the error raised
\* and no result returned.
C21_BinStagesInOrder ==
    [][(call'.fn = "create_bin" /\ bpc' # bpc) =>
          IF bpc = "idle"
          THEN StageOf(bpc') = "Validating" /\ outcome' = Pending
          ELSE IF outcome'.kind = "raised"
          THEN bpc' = "idle" /\ StageOf(bpc) # "Done"
          ELSE /\ StageIndex(StageOf(bpc')) - StageIndex(StageOf(bpc)) \in {0, 1}
               /\ (bpc' = "idle") <=> (outcome' = Returned)
               /\ outcome' = Returned => StageOf(bpc) = "Exporting(mesh)"]_vars

\* a bin build went through every stage and returned its four layers
C21_Witness ==
    /\ call.fn = "create_bin"
    /\ outcome = Returned
    /\ objects = <<"Knob_Layer", "Bottom", "wall_ring", "lip_ring">>

----------------------------------------------------------------------------
(* Knob units and the bin's own partition *)

\* the cells create_knob_layer divides the bin footprint into
BinFootprintCells(c) ==
    bin_grid_divider(Hundredths(c.width) - 2 * bin_inset,
                     Hundredths(c.depth) - 2 * bin_inset)

\* C22: create_knob_layer produces one knob unit for every cell of the
\* bin-footprint partition: the number of knob units equals the number of
\* cells grid_divider returns for that footprint.
C22_OneKnobUnitPerCell ==
    (call.fn = "create_bin" /\ "Bottom" \in BinObjects) =>
        Cardinality(knob_objects(call)) = Cardinality(BinFootprintCells(call))

\* a cell of the baseplate partition (tenths of mm) in the bin's units
CellInHundredths(u) ==
    [width |-> Hundredths(u.width), depth |-> Hundredths(u.depth),
     x_pos |-> Hundredths(u.x_offset), y_pos |-> Hundredths(u.y_offset)]

\* C23: the bin's knob sub-partition is the baseplate's partitioner: for
\* every footprint W x D, GridfinityCustomBin.grid_divider(W, D, 42) returns
\* the same set of cells as GridfinityBaseplate(W, D).grid_divider().
C23_BinPartitionIsBaseplatePartition ==
    (gpc # "divide" /\ config.GRID_SIZE = GRID_SIZE) =>
        {CellInHundredths(units[i]) : i \in 1..Len(units)}
            = bin_grid_divider(Hundredths(drawer_width), Hundredths(drawer_depth))

\* C24: a section whose final unified shape is null or invalid is never
\* exported: create_unit fails the section build, so create_printable_object
\* reaches neither the CAD save nor the mesh export, nor returns, with such a
\* unit in its document.
C24_InvalidShapeNeverExported ==
    (call.fn = "create_printable_object" /\ "UnifiedUnit_invalid" \in BinObjects) =>
        /\ bpc \notin {"cpo_stl", "cpo_close"}
        /\ outcome # Returned

----------------------------------------------------------------------------
(* create_bin of src/core: the wall ring and the lip offset *)

\* self.wall_height and self.lip_height of src/core's GridfinityCustomBin
core_wall_height == 500
core_lip_height == 150

\* the local wall_height create_bin computes from the requested height
core_computed_wall_height(c) ==
    Hundredths(c.height) - bottom_thickness - core_lip_height - knob_height

\* `height' of create_layer: taken from the attributes by layer type; the
\* value create_bin computed is not among create_layer's arguments
core_layer_height(layer_type) ==
    IF layer_type = "wall" THEN core_wall_height ELSE core_lip_height

\* lip_z_offset of create_bin: wall_z_offset + self.wall_height
core_lip_z_offset == wall_z_offset + core_wall_height

\* C25: in src/core's create_bin the requested height determines the
\* geometry: the wall ring is built height - bottom - lip - knob high and the
\* lip ring sits at wall Z plus that wall height.
C25_RequestedHeightSetsWallAndLip ==
    (call.fn = "create_bin" /\ "lip_ring" \in BinObjects) =>
        /\ core_layer_height("wall") = core_computed_wall_height(call)
        /\ core_lip_z_offset = wall_z_offset + core_computed_wall_height(call)

\* C26: printable_object_selector terminates for every drawer size and every
\* configuration, a grid square larger than the print bed included: the
\* selector eventually returns.
C26_SelectorTerminates == <>(gpc = "returned")

----------------------------------------------------------------------------
(* Atomicity of generate_drawer_models and the file pair of every model *)

\* the committed rows the request of session s created
RowsOfRequest(s) ==
    [models |-> {m \in db.models : m.id > req[s].models_before},
     files |-> {f \in db.files : f.model_id > req[s].models_before},
     bins |-> {b \in db.bins : b.id = req[s].no},
     baseplates |-> {b \in db.baseplates : b.id = req[s].no},
     drawers |-> {d \in db.drawers : d.id = req[s].no}]

\* C27: generate_drawer_models is all-or-nothing: when the baseplate
\* generation or a bin group fails, no Drawer, Baseplate, Bin, Model or
\* GeneratedFile row the request created remains committed after the error.
C27_DrawerModelsAllOrNothing ==
    [][\A s \in Sessions :
          (/\ req[s].op = "generate_drawer_models"
           /\ spc[s] # "idle"
           /\ spc'[s] = "idle"
           /\ result'[s].status = "error")
          => RowsOfRequest(s)' = NoRows]_vars

\* C28: whatever generate_bin, generate_baseplate and generate_drawer_models
\* calls succeeded or failed, every committed Model row has at least one
\* FCStd and one STL GeneratedFile row.
C28_CommittedModelHasFilePair ==
    \A m \in db.models :
        /\ \E f \in db.files : f.model_id = m.id /\ f.file_type = "FCStd"
        /\ \E f \in db.files : f.model_id = m.id /\ f.file_type \in {"STL", "stl"}

----------------------------------------------------------------------------
(* Order of recompute and export, and the wall ring of the lowest bin *)

\* C29: in create_bin the document recompute comes after the last geometry
\* object (the lip ring) and before both the CAD save and the mesh export,
\* as the recompute of create_printable_object precedes its exports.
C29_RecomputeBeforeExports ==
    [][(call'.fn = "create_bin" /\ bpc' # bpc) =>
          /\ (bpc' = "recompute") => (bpc = "lip")
          /\ (bpc' = "save") => (bpc = "recompute")]_vars

\* C30: for every height validate_dimensions accepts the wall ring height
\* create_bin computes, height - bottom_thickness - lip_height - knob_height,
\* is strictly positive.
C30_AcceptedHeightGivesPositiveWall ==
    (BinValidated /\ errors = << >>) => wall_height(call) > 0

\* the lowest accepted bin, 10 mm, has its wall ring of 0.15 mm built
C30_Witness ==
    /\ call.fn = "create_bin"
    /\ call.height = MIN_BIN_HEIGHT
    /\ "wall_ring" \in BinObjects
    /\ wall_height(call) = 15

====
